---- MODULE Spec2Model ----
(***************************************************************************)
(* noter-backend, main/views.py: the image sharing and group membership    *)
(* views over the object store (images, groups, memberships and the        *)
(* guardian 'view_obj' group object permissions).  The views run as plain  *)
(* handlers without a transaction: each statement that reads or writes the *)
(* store is a step of its own, and the steps of the requests that the      *)
(* server's workers run together interleave.                               *)
(*                                                                         *)
(*   Spec        every view, from the empty store on; the requests of the  *)
(*               workers interleave statement by statement.                *)
(*   SpecImages  Spec restricted to ImageList, ImageDetail, GetImage and   *)
(*               ShareImages.post.                                         *)
(*   SpecMembers Spec restricted to CreateGroup and JoinGroup.             *)
(*   SpecShare   ShareImages on a store that holds every image and group.  *)
(*   SpecRace  GetImage, ShareImages and CreateGroup on a store that holds *)
(*             every image; the requests of the workers interleave.        *)
(*   SpecUndo  SpecRace, and a grant that runs with nothing between,       *)
(*             followed by its revoke.                                     *)
(***************************************************************************)
EXTENDS Integers, Sequences, FiniteSets, Bags, TLC

\* ---------------------------------------------------------------- bounds
\* Number of Image rows that may ever be created (primary keys 1..MaxImages).
MaxImages == 2

\* The public group: Group.objects.get(id=1), views.py line 88.
PublicGroupId == 1

\* Authenticated users, named by their email (owner_email=request.user.email).
Users == {"ann", "bob"}
\* Email addresses a request may carry: one of them belongs to no user.
Emails == Users \cup {"nobody"}
\* auth.Group.name is unique, so the names bound the groups that can exist;
\* "public" is the name of group 1.
GroupNames == {"public", "lab"}
GroupIds == 1..Cardinality(GroupNames)
ImageIds == 1..MaxImages
\* The server's workers: each runs one handler at a time, so this many
\* requests may be between two statements of their handlers together.
MaxWorkers == 2
Workers == 1..MaxWorkers

\* A JSON value of the 'public' field: a string, or a value that is no string
\* (a boolean, null) and so has no lower().
Str(s) == [str |-> s]
Json(v) == [json |-> v]
IsString(v) == DOMAIN v = {"str"}
\* Values of the 'public' field of a ShareImages request.
PublicValues ==
    {Str("true"), Str("True"), Str("false"), Json("true"), Json("false"), Json("null")}

VARIABLES
    images,       \* Image table: id -> owner, over the ids of the existing rows
    next_image,   \* next primary key of the Image table (keys are not reused)
    groups,       \* auth Group table: id -> name, over the existing rows
    user_groups,  \* User.groups: set of <<user, group id>>
    perms,        \* guardian 'view_obj' group permissions: set of <<group id, image id>>
    running,      \* the requests between two statements of their handler (a bag)
    undo          \* a grant that runs with nothing between, and what follows it

vars == <<images, next_image, groups, user_groups, perms, running, undo>>

\* The tables as one value.
Store ==
    [images |-> images, next_image |-> next_image, groups |-> groups,
     user_groups |-> user_groups, perms |-> perms]

Idle == [phase |-> "idle"]

\* A request entering its handler; status 0: not answered yet.
NewRequest(view, user, args) ==
    [view |-> view, user |-> user, args |-> args, pc |-> "start", status |-> 0]
\* The request at its next statement, and the request answered.
At(r, pc) == [r EXCEPT !.pc = pc]
Answer(r, status) == [r EXCEPT !.pc = "done", !.status = status]

\* One step of a handler: the request after it, the statement it ran, and the
\* tables after it.
Out(r, step, s) == [req |-> r, step |-> step, store |-> s]

\* ----------------------------------------------------------- request data
\* request.data: a mapping in which every field may be missing.
NoData == [k \in {} |-> 0]
Field(key, values) == {[k \in {key} |-> v] : v \in values}
Optional(key, values) == {NoData} \cup Field(key, values)

ShareData ==
    {a @@ b @@ c : a \in Optional("image_ids", SUBSET ImageIds),
                   b \in Optional("group_ids", SUBSET GroupIds),
                   c \in Optional("public", PublicValues)}

\* ShareImages.delete reads image_ids and group_ids alone.
RevokeData ==
    {a @@ b : a \in Optional("image_ids", SUBSET ImageIds),
              b \in Optional("group_ids", SUBSET GroupIds)}

MemberData == Optional("email", Emails)

\* ImageList.post reads project_id; the other fields are the serializer's.
ImageData == Optional("project_id", {"p1"})

\* str.lower() on the string values the 'public' field takes.
Lower(v) == IF v.str = "True" THEN "true" ELSE v.str

\* ------------------------------------------------------------ permissions
SAFE_METHODS == {"GET", "HEAD", "OPTIONS"}

\* The Image row a view holds: fetched once, then kept in memory.
Row(pk) == [id |-> pk, owner |-> images[pk]]
NoRow == [id |-> 0, owner |-> "nobody"]

IsOwnerOrRefuse(user, obj) == obj.owner = user

IsOwnerAndReadOnlyOrRefuse(user, method, obj) ==
    method \in SAFE_METHODS /\ obj.owner = user

IsReadOnlyAndHasAccessOrRefuse(user, method, obj) ==
    /\ method \in SAFE_METHODS
    /\ \E g \in DOMAIN groups : <<user, g>> \in user_groups /\ <<g, obj.id>> \in perms

IsReadOnlyAndPublicOrRefuse(user, method, obj) ==
    method \in SAFE_METHODS /\ <<PublicGroupId, obj.id>> \in perms

\* ------------------------------------------------------------------ views
\* Each view gives, for a request r at statement r.pc, the steps it may take.

\* GetImage.get_object, statement by statement.  Image.objects.get (line 52),
\* then check_object_permissions (line 53) over permission_classes (line 48),
\* three predicates composed with |: they are evaluated in turn and the first
\* that holds allows the read.  The owner predicate reads the row already
\* fetched; the other two read the store, each in a statement of its own.
\* The headers of the answer (lines 62-74) are made from the row held and
\* from the environment, not from the store.
GetImage_get(r) ==
    CASE r.pc = "start" ->
           IF r.args.pk \notin DOMAIN images
           THEN {Out(Answer(r, 404), "get", Store)}
           ELSE IF IsOwnerAndReadOnlyOrRefuse(r.user, "GET", Row(r.args.pk))
           THEN {Out(Answer([r EXCEPT !.args.row = Row(r.args.pk)], 200), "get", Store)}
           ELSE {Out(At([r EXCEPT !.args.row = Row(r.args.pk)], "has_access"),
                     "get", Store)}
      [] r.pc = "has_access" ->
           IF IsReadOnlyAndHasAccessOrRefuse(r.user, "GET", r.args.row)
           THEN {Out(Answer(r, 200), "has_access", Store)}
           ELSE {Out(At(r, "public"), "has_access", Store)}
      [] r.pc = "public" ->
           IF IsReadOnlyAndPublicOrRefuse(r.user, "GET", r.args.row)
           THEN {Out(Answer(r, 200), "public", Store)}
           ELSE {Out(Answer(r, 403), "public", Store)}

\* The answer to a GetImage read that runs with nothing between its
\* statements.
RECURSIVE GetImage_answer(_)
GetImage_answer(r) ==
    IF r.pc = "done" THEN r.status
    ELSE GetImage_answer((CHOOSE o \in GetImage_get(r) : TRUE).req)

\* The arguments of a GetImage request: the key, the row fetched, and (for
\* the statement of what a read promises) whether the user was entitled to
\* the image in the states the read has been through.
GetImageArgs(pk) == [pk |-> pk, row |-> NoRow, seen |-> {}]

GetImage_status(user, pk) ==
    GetImage_answer(NewRequest("GetImage.get", user, GetImageArgs(pk)))

\* Mutant: get_object without check_object_permissions.
ImageDetail_get_object_unchecked(user, pk) ==
    IF pk \notin DOMAIN images THEN 404 ELSE 200

\* ImageDetail.get_object.
ImageDetail_get_object(user, pk) ==
    IF pk \notin DOMAIN images THEN 404
    ELSE IF ~IsOwnerOrRefuse(user, Row(pk)) THEN 403
    ELSE 200

ImageDetail_get(r) ==
    {Out(Answer(r, ImageDetail_get_object(r.user, r.args.pk)), "get_object", Store)}

\* ImageDetail.delete: get_object (line 270), then image.delete() (line 271).
\* delete() removes the Image row if it is still there; the guardian rows that
\* name it stay behind, out of reach of every view (keys are not reused).
ImageDetail_delete(r) ==
    IF r.pc = "start"
    THEN IF ImageDetail_get_object(r.user, r.args.pk) # 200
         THEN {Out(Answer(r, ImageDetail_get_object(r.user, r.args.pk)),
                   "get_object", Store)}
         ELSE {Out(At(r, "delete"), "get_object", Store)}
    ELSE {Out(Answer(r, 204), "delete",
              [Store EXCEPT !.images =
                  [i \in DOMAIN images \ {r.args.pk} |-> images[i]]])}

\* ImageList.post: ImageSerializer.is_valid() (line 235; valid stands for what
\* it returns), then save() (line 236), which inserts the row under the next
\* primary key.  The keyword arguments of save() read
\* request.data['project_id'] before it is called (KeyError: 500).
ImageList_post(r) ==
    IF r.pc = "start"
    THEN IF ~r.args.valid THEN {Out(Answer(r, 400), "is_valid", Store)}
         ELSE IF "project_id" \notin DOMAIN r.args.data
         THEN {Out(Answer(r, 500), "is_valid", Store)}
         ELSE {Out(At(r, "save"), "is_valid", Store)}
    ELSE {Out(Answer(r, 201), "save",
              [Store EXCEPT !.images = (next_image :> r.user) @@ images,
                            !.next_image = next_image + 1])}

\* Image.objects.filter(id__in=request.data['image_ids'])
ImageQuery(data) == {i \in DOMAIN images : i \in data["image_ids"]}
\* The rows that query fetches: id -> owner.
ImageRows(data) == [i \in ImageQuery(data) |-> images[i]]
NoRows == [i \in {} |-> "nobody"]
\* Group.objects.filter(id__in=request.data['group_ids'])
GroupQuery(data) == {g \in DOMAIN groups : g \in data["group_ids"]}

\* The arguments of a ShareImages request: its data, the image rows fetched,
\* the rows not yet iterated, the image being processed (0: none) and the
\* groups still to go for it.
ShareArgs(data) ==
    [data |-> data, rows |-> NoRows, todo |-> {}, cur |-> 0, left |-> {}]

\* guardian assign_perm('view_obj', group, image)
assign_perm(p, group, image) == p \cup {<<group, image>>}

\* Mutant: every group's permission on the image is removed.
remove_perm_all(p, group, image) == {q \in p : q[2] # image}

\* guardian remove_perm('view_obj', group, image)
remove_perm(p, group, image) == p \ {<<group, image>>}

\* Mutant: the two conditions of line 81 joined by and instead of or.
post_validate_and(data) ==
    IF "image_ids" \in DOMAIN data THEN 0
    ELSE IF "group_ids" \in DOMAIN data THEN 0
    ELSE IF "public" \notin DOMAIN data THEN 400
    ELSE IF ~IsString(data["public"]) THEN 500
    ELSE IF Lower(data["public"]) = "true" THEN 0
    ELSE 400

\* The validation of ShareImages.post (line 81), in the order Python
\* evaluates it: 400, or 500 when lower() is called on a value that is no
\* string (AttributeError), or 0 when the request passes.
post_validate(data) ==
    IF "image_ids" \notin DOMAIN data THEN 400
    ELSE IF "group_ids" \in DOMAIN data THEN 0
    ELSE IF "public" \notin DOMAIN data THEN 400
    ELSE IF ~IsString(data["public"]) THEN 500
    ELSE IF Lower(data["public"]) = "true" THEN 0
    ELSE 400

\* The loop of ShareImages.post between two store statements: the next image
\* of the queryset (in any order), the owner check of line 85 and the test of
\* line 87, up to the statement that comes next.  request.data['public'] is
\* read unguarded: KeyError when the field is missing, AttributeError when it
\* is no string, both answered 500.
RECURSIVE post_next(_, _)
post_next(r, todo) ==
    IF todo = {}
    THEN {Answer([r EXCEPT !.args.todo = {}, !.args.cur = 0, !.args.left = {}], 200)}
    ELSE UNION {
        LET r1 == [r EXCEPT !.args.todo = todo \ {i}, !.args.cur = i, !.args.left = {}]
            d == r.args.data
        IN  IF ~IsOwnerOrRefuse(r.user, [id |-> i, owner |-> r.args.rows[i]])
            THEN {Answer(r1, 403)}
            ELSE IF "public" \notin DOMAIN d \/ ~IsString(d["public"])
            THEN {Answer(r1, 500)}
            ELSE IF Lower(d["public"]) = "true" THEN {At(r1, "public_group")}
            ELSE IF "group_ids" \in DOMAIN d THEN {At(r1, "groups")}
            ELSE post_next(r1, todo \ {i})
        : i \in todo}

\* After the public permission of an image is written (line 89): line 90.
post_after_public(r) ==
    IF "group_ids" \in DOMAIN r.args.data THEN {At(r, "groups")}
    ELSE post_next(r, r.args.todo)

\* ShareImages.post, statement by statement: the validation and the image
\* query (lines 81-84), the lookup of the public group (line 88: DoesNotExist
\* is answered 500), its permission (line 89), the group query (line 91), one
\* assign_perm per group (line 92).
ShareImages_post(r) ==
    LET d == r.args.data
    IN  CASE r.pc = "start" ->
               IF post_validate(d) # 0
               THEN {Out(Answer(r, post_validate(d)), "validate", Store)}
               ELSE IF "image_ids" \notin DOMAIN d
               THEN {Out(Answer(r, 500), "validate", Store)}
               ELSE {Out(r2, "images", Store) :
                       r2 \in post_next([r EXCEPT !.args.rows = ImageRows(d)],
                                        ImageQuery(d))}
          [] r.pc = "public_group" ->
               IF PublicGroupId \notin DOMAIN groups
               THEN {Out(Answer(r, 500), "public_group", Store)}
               ELSE {Out(At(r, "public"), "public_group", Store)}
          [] r.pc = "public" ->
               {Out(r2, "public",
                    [Store EXCEPT !.perms = assign_perm(perms, PublicGroupId, r.args.cur)]) :
                   r2 \in post_after_public(r)}
          [] r.pc = "groups" ->
               {Out(r2, "groups", Store) :
                   r2 \in IF GroupQuery(d) = {}
                          THEN post_next(r, r.args.todo)
                          ELSE {[At(r, "assign") EXCEPT !.args.left = GroupQuery(d)]}}
          [] r.pc = "assign" ->
               UNION {
                   {Out(r2, "assign",
                        [Store EXCEPT !.perms = assign_perm(perms, g, r.args.cur)]) :
                       r2 \in IF r.args.left = {g}
                              THEN post_next(r, r.args.todo)
                              ELSE {[r EXCEPT !.args.left = r.args.left \ {g}]}}
                   : g \in r.args.left}

\* The validation of ShareImages.delete (line 96).
delete_validate(data) ==
    IF "image_ids" \notin DOMAIN data \/ "group_ids" \notin DOMAIN data THEN 400 ELSE 0

\* The loop of ShareImages.delete between two store statements: the next
\* image and the owner check of line 100.
delete_next(r, todo) ==
    IF todo = {}
    THEN {Answer([r EXCEPT !.args.todo = {}, !.args.cur = 0, !.args.left = {}], 200)}
    ELSE {LET r1 == [r EXCEPT !.args.todo = todo \ {i}, !.args.cur = i, !.args.left = {}]
          IN  IF ~IsOwnerOrRefuse(r.user, [id |-> i, owner |-> r.args.rows[i]])
              THEN Answer(r1, 403)
              ELSE At(r1, "groups")
          : i \in todo}

\* ShareImages.delete, statement by statement: the validation and the image
\* query (lines 96-99), the group query (line 101), one remove_perm per group
\* (line 102).
ShareImages_delete(r) ==
    LET d == r.args.data
    IN  CASE r.pc = "start" ->
               IF delete_validate(d) # 0
               THEN {Out(Answer(r, delete_validate(d)), "validate", Store)}
               ELSE {Out(r2, "images", Store) :
                       r2 \in delete_next([r EXCEPT !.args.rows = ImageRows(d)],
                                          ImageQuery(d))}
          [] r.pc = "groups" ->
               {Out(r2, "groups", Store) :
                   r2 \in IF GroupQuery(d) = {}
                          THEN delete_next(r, r.args.todo)
                          ELSE {[At(r, "remove") EXCEPT !.args.left = GroupQuery(d)]}}
          [] r.pc = "remove" ->
               UNION {
                   {Out(r2, "remove",
                        [Store EXCEPT !.perms = remove_perm(perms, g, r.args.cur)]) :
                       r2 \in IF r.args.left = {g}
                              THEN delete_next(r, r.args.todo)
                              ELSE {[r EXCEPT !.args.left = r.args.left \ {g}]}}
                   : g \in r.args.left}

\* auth.Group.name is unique.
NameTaken(name) == \E g \in DOMAIN groups : groups[g] = name

\* CreateGroup.post: GroupSerializer.is_valid() looks the name up (line 132),
\* save() inserts the row under the next primary key (line 133; the insert of
\* a name taken meanwhile is an IntegrityError: 500), get_object_or_404 reads
\* the row back (line 134), and the creator is added to the group (line 135).
CreateGroup_post(r) ==
    CASE r.pc = "start" ->
           IF NameTaken(r.args.name)
           THEN {Out(Answer(r, 400), "is_valid", Store)}
           ELSE {Out(At(r, "save"), "is_valid", Store)}
      [] r.pc = "save" ->
           IF NameTaken(r.args.name)
           THEN {Out(Answer(r, 500), "save", Store)}
           ELSE LET id == Cardinality(DOMAIN groups) + 1
                IN  {Out([At(r, "get") EXCEPT !.args.id = id], "save",
                         [Store EXCEPT !.groups = (id :> r.args.name) @@ groups])}
      [] r.pc = "get" ->
           IF r.args.id \notin DOMAIN groups
           THEN {Out(Answer(r, 404), "get", Store)}
           ELSE {Out(At(r, "add"), "get", Store)}
      [] r.pc = "add" ->
           {Out(Answer(r, 201), "add",
                [Store EXCEPT !.user_groups = user_groups \cup {<<r.user, r.args.id>>}])}

\* request.user.groups.filter(name=group_name).exists()
IsMemberOfNamed(user, group_name) ==
    \E g \in DOMAIN groups : groups[g] = group_name /\ <<user, g>> \in user_groups

\* JoinGroup.get_group_or_404: Group.objects.get(name=name).
GroupNamed(group_name) == CHOOSE g \in DOMAIN groups : groups[g] = group_name

\* Mutant: the email field is checked before the membership of the acting user.
JoinGroup_status_email_first(user, group_name, data) ==
    IF "email" \notin DOMAIN data THEN 400
    ELSE IF ~IsMemberOfNamed(user, group_name) THEN 403
    ELSE 0

\* The checks JoinGroup.post and JoinGroup.delete start with (lines 171-174,
\* 182-185): 403, 400, or 0 when the request passes.
JoinGroup_status(user, group_name, data) ==
    IF ~IsMemberOfNamed(user, group_name) THEN 403
    ELSE IF "email" \notin DOMAIN data THEN 400
    ELSE 0

\* The two lookups JoinGroup.post and JoinGroup.delete share, each a statement
\* of its own: get_user_or_404 (lines 176, 187), and get_group_or_404 (lines
\* 177, 188), which catches User.DoesNotExist, so that a group that is missing
\* is answered 500.  write is the statement that follows them.
JoinGroup_lookup(r, write) ==
    CASE r.pc = "start" ->
           IF JoinGroup_status(r.user, r.args.group_name, r.args.data) # 0
           THEN {Out(Answer(r, JoinGroup_status(r.user, r.args.group_name, r.args.data)),
                     "check", Store)}
           ELSE {Out(At(r, "user"), "check", Store)}
      [] r.pc = "user" ->
           IF r.args.data["email"] \notin Users
           THEN {Out(Answer(r, 404), "user", Store)}
           ELSE {Out(At(r, "group"), "user", Store)}
      [] r.pc = "group" ->
           IF ~NameTaken(r.args.group_name)
           THEN {Out(Answer(r, 500), "group", Store)}
           ELSE {Out([At(r, write) EXCEPT !.args.id = GroupNamed(r.args.group_name)],
                     "group", Store)}

\* JoinGroup.post: the check and the lookups, then user.groups.add(group)
\* (line 178).
JoinGroup_post(r) ==
    IF r.pc # "add" THEN JoinGroup_lookup(r, "add")
    ELSE {Out(Answer(r, 200), "add",
              [Store EXCEPT !.user_groups =
                  user_groups \cup {<<r.args.data["email"], r.args.id>>}])}

\* JoinGroup.delete: the check and the lookups, then
\* user.groups.remove(group) (line 189).
JoinGroup_delete(r) ==
    IF r.pc # "remove" THEN JoinGroup_lookup(r, "remove")
    ELSE {Out(Answer(r, 200), "remove",
              [Store EXCEPT !.user_groups =
                  user_groups \ {<<r.args.data["email"], r.args.id>>}])}

\* --------------------------------------------------------------- requests
\* The requests a client may send, per view.
GetImageRequests ==
    {NewRequest("GetImage.get", u, GetImageArgs(pk)) : u \in Users, pk \in ImageIds}
ImageGetRequests ==
    {NewRequest("ImageDetail.get", u, [pk |-> pk]) : u \in Users, pk \in ImageIds}
ImageDeleteRequests ==
    {NewRequest("ImageDetail.delete", u, [pk |-> pk]) : u \in Users, pk \in ImageIds}
ImageCreateRequests ==
    {NewRequest("ImageList.post", u, [data |-> data, valid |-> valid]) :
        u \in Users, data \in ImageData, valid \in BOOLEAN}
GrantRequests ==
    {NewRequest("ShareImages.post", u, ShareArgs(data)) : u \in Users, data \in ShareData}
RevokeRequests ==
    {NewRequest("ShareImages.delete", u, ShareArgs(data)) : u \in Users, data \in RevokeData}
CreateGroupRequests ==
    {NewRequest("CreateGroup.post", u, [name |-> name, id |-> 0]) :
        u \in Users, name \in GroupNames}
AddMemberRequests ==
    {NewRequest("JoinGroup.post", u, [group_name |-> name, data |-> data, id |-> 0]) :
        u \in Users, name \in GroupNames, data \in MemberData}
RemoveMemberRequests ==
    {NewRequest("JoinGroup.delete", u, [group_name |-> name, data |-> data, id |-> 0]) :
        u \in Users, name \in GroupNames, data \in MemberData}

\* The bodies of the ShareImages requests that are sent while others run: each
\* field may be missing; image_ids names one image or all, group_ids one group.
RaceImageSets == {{i} : i \in ImageIds} \cup {ImageIds}
RaceGroupSets == {{g} : g \in GroupIds}
\* One truthy string, one that is not, and one value that is no string.
SentPublicValues == {Str("True"), Str("false"), Json("false")}
SentGrantData ==
    {a @@ b @@ c : a \in Optional("image_ids", RaceImageSets),
                   b \in Optional("group_ids", RaceGroupSets),
                   c \in Optional("public", SentPublicValues)}
SentRevokeData ==
    {a @@ b : a \in Optional("image_ids", RaceImageSets),
              b \in Optional("group_ids", RaceGroupSets)}
SentGrantRequests ==
    {NewRequest("ShareImages.post", u, ShareArgs(data)) : u \in Users, data \in SentGrantData}
SentRevokeRequests ==
    {NewRequest("ShareImages.delete", u, ShareArgs(data)) : u \in Users, data \in SentRevokeData}

\* ---------------------------------------------------------- specification
Init ==
    /\ images = [i \in {} |-> "nobody"]
    /\ next_image = 1
    /\ groups = (PublicGroupId :> "public")
    /\ user_groups = {}
    /\ perms = {}
    /\ running = EmptyBag
    /\ undo = Idle

\* No grant runs with nothing between.
Quiet == undo = Idle

\* The tables after the step o.
Write(o) ==
    /\ images' = o.store.images
    /\ next_image' = o.store.next_image
    /\ groups' = o.store.groups
    /\ user_groups' = o.store.user_groups
    /\ perms' = o.store.perms

\* In the tables s, the user owns the image, or is in a group that holds a
\* view grant on it, or the image is public.
EntitledIn(s, user, pk) ==
    /\ pk \in DOMAIN s.images
    /\ \/ s.images[pk] = user
       \/ \E g \in DOMAIN s.groups :
             <<user, g>> \in s.user_groups /\ <<g, pk>> \in s.perms
       \/ <<PublicGroupId, pk>> \in s.perms

\* The requests between two statements, once the tables are s: each GetImage
\* request has been through one more state.
Observe(bag, s) ==
    BagOfAll(LAMBDA r : IF r.view = "GetImage.get"
                        THEN [r EXCEPT !.args.seen =
                                 @ \cup {EntitledIn(s, r.user, r.args.pk)}]
                        ELSE r,
             bag)

\* A request enters its handler and takes its first step; the step answers
\* it, or the request stays between two statements.
Begin(o) ==
    /\ o.req.pc # "done" => BagCardinality(running) < Cardinality(Workers)
    /\ Write(o)
    /\ running' = Observe(IF o.req.pc = "done" THEN running
                          ELSE running (+) SetToBag({o.req}), o.store)
    /\ UNCHANGED undo

\* The request r between two statements takes its next step.
Continue(r, o) ==
    /\ Write(o)
    /\ running' = Observe(IF o.req.pc = "done" THEN running (-) SetToBag({r})
                          ELSE (running (-) SetToBag({r})) (+) SetToBag({o.req}),
                          o.store)
    /\ UNCHANGED undo

DoGetImage ==
    \E r \in GetImageRequests : \E o \in GetImage_get(r) : Begin(o)
DoImageGet ==
    \E r \in ImageGetRequests : \E o \in ImageDetail_get(r) : Begin(o)
DoImageDelete ==
    \E r \in ImageDeleteRequests : \E o \in ImageDetail_delete(r) : Begin(o)
\* The ImageList.post requests that are before save().
Saving ==
    BagCardinality([x \in {y \in BagToSet(running) : y.view = "ImageList.post"} |->
                       running[x]])
\* Primary keys are handed out up to MaxImages: a request goes on to save()
\* while a key is left for it.
DoImageCreate ==
    \E r \in ImageCreateRequests : \E o \in ImageList_post(r) :
        /\ o.req.pc = "save" => next_image + Saving <= MaxImages
        /\ Begin(o)
DoGrant ==
    \E r \in SentGrantRequests : \E o \in ShareImages_post(r) : Begin(o)
DoRevoke ==
    \E r \in SentRevokeRequests : \E o \in ShareImages_delete(r) : Begin(o)
DoCreateGroup ==
    \E r \in CreateGroupRequests : \E o \in CreateGroup_post(r) : Begin(o)
DoAddMember ==
    \E r \in AddMemberRequests : \E o \in JoinGroup_post(r) : Begin(o)
DoRemoveMember ==
    \E r \in RemoveMemberRequests : \E o \in JoinGroup_delete(r) : Begin(o)

\* The later statements of the handlers that have more than one.
StepGetImage ==
    /\ Quiet
    /\ \E r \in BagToSet(running) :
          /\ r.view = "GetImage.get"
          /\ \E o \in GetImage_get(r) : Continue(r, o)
StepImageCreate ==
    /\ Quiet
    /\ \E r \in BagToSet(running) :
          /\ r.view = "ImageList.post"
          /\ \E o \in ImageList_post(r) : Continue(r, o)
StepImageDelete ==
    /\ Quiet
    /\ \E r \in BagToSet(running) :
          /\ r.view = "ImageDetail.delete"
          /\ \E o \in ImageDetail_delete(r) : Continue(r, o)
StepGrant ==
    /\ Quiet
    /\ \E r \in BagToSet(running) :
          /\ r.view = "ShareImages.post"
          /\ \E o \in ShareImages_post(r) : Continue(r, o)
StepRevoke ==
    /\ Quiet
    /\ \E r \in BagToSet(running) :
          /\ r.view = "ShareImages.delete"
          /\ \E o \in ShareImages_delete(r) : Continue(r, o)
StepCreateGroup ==
    /\ Quiet
    /\ \E r \in BagToSet(running) :
          /\ r.view = "CreateGroup.post"
          /\ \E o \in CreateGroup_post(r) : Continue(r, o)
StepAddMember ==
    /\ Quiet
    /\ \E r \in BagToSet(running) :
          /\ r.view = "JoinGroup.post"
          /\ \E o \in JoinGroup_post(r) : Continue(r, o)
StepRemoveMember ==
    /\ Quiet
    /\ \E r \in BagToSet(running) :
          /\ r.view = "JoinGroup.delete"
          /\ \E o \in JoinGroup_delete(r) : Continue(r, o)

Next ==
    \/ DoGetImage
    \/ DoImageGet
    \/ DoImageDelete
    \/ DoImageCreate
    \/ DoGrant
    \/ DoRevoke
    \/ DoCreateGroup
    \/ DoAddMember
    \/ DoRemoveMember
    \/ StepGetImage
    \/ StepImageCreate
    \/ StepImageDelete
    \/ StepGrant
    \/ StepRevoke
    \/ StepCreateGroup
    \/ StepAddMember
    \/ StepRemoveMember

Spec == Init /\ [][Next]_vars

\* ------------------------------------------------------------ subsystems
\* Spec restricted to the views that read or write the tables a property is
\* about; the requests of the workers interleave as in Spec.
\* The Image table: ImageList, ImageDetail and GetImage, and the grants of
\* ShareImages, which leave permissions on the images that are deleted.
NextImages ==
    \/ DoImageCreate
    \/ DoImageGet
    \/ DoImageDelete
    \/ DoGetImage
    \/ DoGrant
    \/ StepImageCreate
    \/ StepImageDelete
    \/ StepGetImage
    \/ StepGrant

SpecImages == Init /\ [][NextImages]_vars

\* Groups and their members: CreateGroup and JoinGroup.
NextMembers ==
    \/ DoCreateGroup
    \/ DoAddMember
    \/ DoRemoveMember
    \/ StepCreateGroup
    \/ StepAddMember
    \/ StepRemoveMember

SpecMembers == Init /\ [][NextMembers]_vars

\* ------------------------------------------------------------------ races
\* The requests of two workers interleave statement by statement, whatever
\* their views, on a store that holds every image: the views that read or
\* write the view permissions, on few request bodies.
RaceImages == {f \in [ImageIds -> Users] : f[1] = "ann"}
RaceGrantData ==
    {a @@ b @@ c : a \in Field("image_ids", RaceImageSets),
                   b \in Field("group_ids", RaceGroupSets),
                   c \in Field("public", {Str("True"), Str("false")})}
RaceRevokeData ==
    {a @@ b : a \in Field("image_ids", RaceImageSets),
              b \in Field("group_ids", RaceGroupSets)}
RaceGrantRequests ==
    {NewRequest("ShareImages.post", u, ShareArgs(data)) :
        u \in Users, data \in RaceGrantData}
RaceRevokeRequests ==
    {NewRequest("ShareImages.delete", u, ShareArgs(data)) :
        u \in Users, data \in RaceRevokeData}

\* Every image exists, and no group but the public one.
InitRace ==
    /\ images \in RaceImages
    /\ next_image = MaxImages + 1
    /\ groups = (PublicGroupId :> "public")
    /\ user_groups = {}
    /\ perms = {}
    /\ running = EmptyBag
    /\ undo = Idle

\* A request enters its handler while a worker is free.
Enter(o) ==
    /\ o.req.pc # "done" => BagCardinality(running) < Cardinality(Workers)
    /\ Write(o)
    /\ running' = Observe(IF o.req.pc = "done" THEN running
                          ELSE running (+) SetToBag({o.req}), o.store)
    /\ UNCHANGED undo

RaceGetImage ==
    /\ Quiet
    /\ \E r \in GetImageRequests : \E o \in GetImage_get(r) : Enter(o)
RaceGrant ==
    /\ Quiet
    /\ \E r \in RaceGrantRequests : \E o \in ShareImages_post(r) : Enter(o)
RaceRevoke ==
    /\ Quiet
    /\ \E r \in RaceRevokeRequests : \E o \in ShareImages_delete(r) : Enter(o)
RaceCreateGroup ==
    /\ Quiet
    /\ \E r \in CreateGroupRequests : \E o \in CreateGroup_post(r) : Enter(o)
NextRace ==
    \/ RaceGetImage
    \/ RaceGrant
    \/ RaceRevoke
    \/ RaceCreateGroup
    \/ StepGetImage
    \/ StepGrant
    \/ StepRevoke
    \/ StepCreateGroup

SpecRace == InitRace /\ [][NextRace]_vars

\* The view permissions: ShareImages on a store that holds every image and
\* every group.
InitShare ==
    /\ images \in RaceImages
    /\ next_image = MaxImages + 1
    /\ groups = (PublicGroupId :> "public") @@ (PublicGroupId + 1 :> "lab")
    /\ user_groups = {}
    /\ perms = {}
    /\ running = EmptyBag
    /\ undo = Idle

NextShare ==
    \/ DoGrant
    \/ DoRevoke
    \/ StepGrant
    \/ StepRevoke

SpecShare == InitShare /\ [][NextShare]_vars

\* ------------------------------------------------- a grant and its revoke
\* Who may read what: the pairs <<user, image>> for which GetImage answers 200.
AccessRelation == {ui \in Users \X DOMAIN images : GetImage_status(ui[1], ui[2]) = 200}

\* What a grant that starts now leaves for the requests that follow it: the
\* access relation before it, whether a listed group
\* holds a permission on a listed image already, and whether the grant names
\* the public group without listing it.
Before(data) ==
    [ok |-> FALSE,
     access |-> AccessRelation,
     held |-> /\ "image_ids" \in DOMAIN data
              /\ "group_ids" \in DOMAIN data
              /\ \E i \in ImageQuery(data), g \in GroupQuery(data) : <<g, i>> \in perms,
     public |-> /\ "public" \in DOMAIN data
                /\ IsString(data["public"])
                /\ Lower(data["public"]) = "true"
                /\ ("group_ids" \in DOMAIN data => PublicGroupId \notin data["group_ids"])]

\* A step of the request that runs with nothing between: no other request
\* takes a step from its first statement to its answer.  mark is what the
\* requests before it have left.
Alone(o, phase, answered, mark) ==
    /\ Write(o)
    /\ undo' = [phase |-> IF o.req.pc = "done" THEN answered ELSE phase,
                req |-> o.req,
                ok |-> mark.ok, access |-> mark.access,
                held |-> mark.held, public |-> mark.public]
    /\ UNCHANGED running

\* A grant runs with nothing between.
DoGrantAlone ==
    /\ Quiet
    /\ running = EmptyBag
    /\ \E r \in GrantRequests :
          \E o \in ShareImages_post(r) :
              Alone(o, "granting", "granted",
                    [Before(r.args.data) EXCEPT !.ok = o.req.status = 200])

StepGrantAlone ==
    /\ undo.phase = "granting"
    /\ \E o \in ShareImages_post(undo.req) :
          Alone(o, "granting", "granted", [undo EXCEPT !.ok = o.req.status = 200])

\* The revoke of the same image_ids and group_ids by the same requester, after
\* a grant of groups on images of the requester's own.
DoRevokeAlone ==
    /\ undo.phase = "granted"
    /\ {"image_ids", "group_ids"} \subseteq DOMAIN undo.req.args.data
    /\ \A i \in DOMAIN undo.req.args.rows : undo.req.args.rows[i] = undo.req.user
    /\ \E o \in ShareImages_delete(
                   NewRequest("ShareImages.delete", undo.req.user,
                       ShareArgs([k \in {"image_ids", "group_ids"} |->
                                     undo.req.args.data[k]]))) :
          Alone(o, "revoking", "revoked", undo)

StepRevokeAlone ==
    /\ undo.phase = "revoking"
    /\ \E o \in ShareImages_delete(undo.req) : Alone(o, "revoking", "revoked", undo)

\* The requests that ran with nothing between have been answered.
Release ==
    /\ undo.phase \in {"granted", "revoked"}
    /\ undo' = Idle
    /\ UNCHANGED <<images, next_image, groups, user_groups, perms, running>>

NextUndo ==
    \/ NextRace
    \/ DoGrantAlone
    \/ StepGrantAlone
    \/ DoRevokeAlone
    \/ StepRevokeAlone
    \/ Release

SpecUndo == InitRace /\ [][NextUndo]_vars

\* ----------------------------------------------------------------- claims
\* The properties are stated over the steps that are possible in a state: the
\* first statement of every request a client may send, and the next statement
\* of every request that is between two statements.
Between(view) == {r \in BagToSet(running) : r.view = view}

Grants == GrantRequests \cup Between("ShareImages.post")
Revokes == RevokeRequests \cup Between("ShareImages.delete")
Adds == AddMemberRequests \cup Between("JoinGroup.post")
Removes == RemoveMemberRequests \cup Between("JoinGroup.delete")

Members(g) == {u \in Users : <<u, g>> \in user_groups}
MembersIn(s, g) == {u \in Users : <<u, g>> \in s.user_groups}
GroupsOn(p, image) == {g \in GroupIds : <<g, image>> \in p}
\* An image that existed and was deleted: its key was handed out and is gone.
Deleted(pk) == pk < next_image /\ pk \notin DOMAIN images

\* A public flag that is truthy: the string 'true' in any case, or the JSON
\* value true.
Truthy(data) ==
    /\ "public" \in DOMAIN data
    /\ IF IsString(data["public"]) THEN Lower(data["public"]) = "true"
       ELSE data["public"] = Json("true")

\* The groups a grant request names: the listed ones that exist, and the
\* public group when the public flag is truthy.
NamedByGrant(data) ==
    (IF "group_ids" \in DOMAIN data THEN GroupQuery(data) ELSE {})
    \cup (IF Truthy(data) THEN {PublicGroupId} ELSE {})

\* The image rows a ShareImages request fetched hold one of another owner.
Foreign(q) == \E i \in DOMAIN q.args.rows : q.args.rows[i] # q.user
\* The images of its batch the request is through with.
Processed(q) == DOMAIN q.args.rows \ (q.args.todo \cup {q.args.cur})

\* U owns I, or is in a group that holds a view grant on I, or I is public.
Entitled(u, i) == EntitledIn(Store, u, i)

\* C1: whenever GetImage answers a read by user U of an existing image I, it
\* allows the read (200) or refuses it (403); it allows it only if, in a
\* state between the first statement of the read and its answer, U owns I, or
\* U belongs to a group that holds a view grant on I, or the public group
\* holds a view grant on I; and it refuses it only if in such a state none of
\* the three holds.
C1_ReadAccess ==
    \A r \in GetImageRequests \cup Between("GetImage.get") :
        \A o \in GetImage_get(r) :
            LET seen == r.args.seen \cup {Entitled(r.user, r.args.pk)}
            IN  (o.req.pc = "done" /\ o.req.status # 404) =>
                    \/ o.req.status = 200 /\ TRUE \in seen
                    \/ o.req.status = 403 /\ FALSE \in seen

\* C2: a ShareImages grant or revoke whose image_ids include an image of
\* another owner ends in 403, and no step of a grant or revoke changes the
\* grants on an image the requester does not own.
C2_ForeignImagesUntouched ==
    /\ \A r \in Grants : \A o \in ShareImages_post(r) :
          /\ (o.req.pc = "done" /\ Foreign(o.req)) => o.req.status = 403
          /\ \A i \in DOMAIN images :
                images[i] # r.user => GroupsOn(o.store.perms, i) = GroupsOn(perms, i)
    /\ \A r \in Revokes : \A o \in ShareImages_delete(r) :
          /\ (o.req.pc = "done" /\ Foreign(o.req)) => o.req.status = 403
          /\ \A i \in DOMAIN images :
                images[i] # r.user => GroupsOn(o.store.perms, i) = GroupsOn(perms, i)

\* C3: a ShareImages grant is answered 400 exactly when image_ids is missing,
\* or group_ids is missing and public is not truthy; every other grant by the
\* owner of all the images it names is answered 200; and one that carries
\* image_ids and group_ids but no public field grants every listed group the
\* view permission on every listed image.
C3_GrantValidation ==
    \A r \in Grants : \A o \in ShareImages_post(r) :
        LET d == r.args.data
            malformed == \/ "image_ids" \notin DOMAIN d
                         \/ "group_ids" \notin DOMAIN d /\ ~Truthy(d)
        IN  o.req.pc = "done" =>
              /\ (o.req.status = 400) <=> malformed
              /\ (~malformed /\ ~Foreign(o.req)) =>
                    /\ o.req.status = 200
                    /\ ("public" \notin DOMAIN d) =>
                          \A i \in DOMAIN o.req.args.rows, g \in GroupQuery(d) :
                              <<g, i>> \in o.store.perms

\* What the claim promises after a grant by user of the data d: every member
\* of a group it names, and every user when it names the public group, may
\* read each image of the user's that it names.
GrantedReads(user, d) ==
    \A i \in DOMAIN images :
        (i \in d["image_ids"] /\ images[i] = user) =>
            \A g \in NamedByGrant(d) :
                /\ \A u \in Members(g) : GetImage_status(u, i) = 200
                /\ g = PublicGroupId => \A u \in Users : GetImage_status(u, i) = 200

C5_RevokeRestoresAccess ==
    (undo.phase = "revoked" /\ undo.ok /\ ~undo.public) => AccessRelation = undo.access

\* C5 amended: the same, whatever the grant is answered, provided that before
\* the grant none of the listed groups held a view grant on any of the listed
\* images, and that no other request takes a step from the first statement of
\* the grant to the answer of the revoke.
C5_RevokeRestoresFreshGrant ==
    (undo.phase = "revoked" /\ ~undo.public /\ ~undo.held) => AccessRelation = undo.access

\* Such a grant and its revoke were both answered 200, and a member of a
\* listed group, whom the grant let read a listed image, is refused again.
C5_Witness ==
    /\ undo.phase = "revoked"
    /\ ~undo.held
    /\ ~undo.public
    /\ undo.ok
    /\ undo.req.status = 200
    /\ \E i \in DOMAIN undo.req.args.rows, g \in GroupQuery(undo.req.args.data) :
          \E u \in Members(g) : GetImage_status(u, i) = 403

\* C6: JoinGroup add-member and remove-member by an acting user who is not a
\* member of the named group answer 403, whatever the email field and whether
\* or not the group exists, and change no membership.
C6_NonMemberRefused ==
    /\ \A r \in AddMemberRequests :
          ~IsMemberOfNamed(r.user, r.args.group_name) =>
              \A o \in JoinGroup_post(r) :
                  /\ o.req.pc = "done"
                  /\ o.req.status = 403
                  /\ o.store.user_groups = user_groups
    /\ \A r \in RemoveMemberRequests :
          ~IsMemberOfNamed(r.user, r.args.group_name) =>
              \A o \in JoinGroup_delete(r) :
                  /\ o.req.pc = "done"
                  /\ o.req.status = 403
                  /\ o.store.user_groups = user_groups

\* A non-member is refused although the group exists, has members, and the
\* email names a user.
C6_Witness ==
    \E r \in AddMemberRequests :
        /\ ~IsMemberOfNamed(r.user, r.args.group_name)
        /\ \E g \in DOMAIN groups : groups[g] = r.args.group_name /\ Members(g) # {}
        /\ "email" \in DOMAIN r.args.data
        /\ r.args.data["email"] \in Users
        /\ \E o \in JoinGroup_post(r) : o.req.status = 403

\* C7, in every state: DELETE of an existing image by a user who does not own
\* it answers 403 and the image stays; DELETE by its owner passes get_object,
\* and its image.delete() answers 204 with the image gone; every GET of the
\* id of a deleted image, by any user, answers 404.
C7_DeleteAndRead ==
    /\ \A r \in ImageDeleteRequests :
          r.args.pk \in DOMAIN images =>
              \A o \in ImageDetail_delete(r) :
                  IF images[r.args.pk] # r.user
                  THEN /\ o.req.pc = "done"
                       /\ o.req.status = 403
                       /\ o.store.images = images
                  ELSE o.req.pc = "delete"
    /\ \A r \in Between("ImageDetail.delete") :
          \A o \in ImageDetail_delete(r) :
              /\ o.req.pc = "done"
              /\ o.req.status = 204
              /\ r.args.pk \notin DOMAIN o.store.images
    /\ \A pk \in ImageIds :
          Deleted(pk) =>
              /\ \A r \in GetImageRequests :
                    r.args.pk = pk => \A o \in GetImage_get(r) : o.req.status = 404
              /\ \A r \in ImageGetRequests :
                    r.args.pk = pk => \A o \in ImageDetail_get(r) : o.req.status = 404

\* C7: DELETE of an existing image by a user who does not own it answers 403
\* and the image still exists; DELETE by its owner answers 204; a deleted
\* image stays deleted, and every later GET of its id, by any user, the former
\* owner included, answers 404.
C7_DeleteByOwnerOnly ==
    /\ []C7_DeleteAndRead
    /\ [][\A pk \in ImageIds : Deleted(pk) => Deleted(pk)']_vars

\* An image that was public was deleted while a second DELETE of it by its
\* owner was between get_object and image.delete(); a GET of it answers 404,
\* and another image exists.
C7_Witness ==
    \E pk \in ImageIds :
        /\ Deleted(pk)
        /\ <<PublicGroupId, pk>> \in perms
        /\ \E r \in Between("ImageDetail.delete") : r.args.pk = pk
        /\ \E r \in GetImageRequests :
              r.args.pk = pk /\ \E o \in GetImage_get(r) : o.req.status = 404
        /\ DOMAIN images # {}

\* C8: a ShareImages grant or revoke without image_ids is answered 400 whatever
\* its other fields, and so is a revoke without group_ids; neither adds or
\* removes a view grant.
C8_MissingFieldsRejected ==
    /\ \A r \in GrantRequests :
          "image_ids" \notin DOMAIN r.args.data =>
              \A o \in ShareImages_post(r) :
                  o.req.pc = "done" /\ o.req.status = 400 /\ o.store.perms = perms
    /\ \A r \in RevokeRequests :
          ("image_ids" \notin DOMAIN r.args.data \/ "group_ids" \notin DOMAIN r.args.data) =>
              \A o \in ShareImages_delete(r) :
                  o.req.pc = "done" /\ o.req.status = 400 /\ o.store.perms = perms

\* A grant without image_ids is refused although it carries group_ids and a
\* truthy public flag, the groups exist, and the requester owns an image that
\* holds a view grant.
C8_Witness ==
    \E r \in GrantRequests :
        /\ DOMAIN r.args.data = {"group_ids", "public"}
        /\ Truthy(r.args.data)
        /\ GroupQuery(r.args.data) # {}
        /\ \E i \in DOMAIN images : images[i] = r.user /\ GroupsOn(perms, i) # {}
        /\ \E o \in ShareImages_post(r) : o.req.status = 400

\* C9: a multi-image grant or revoke whose batch holds an image the requester
\* does not own is refused (403) at that image; the images processed before
\* it carry the change (the named groups added, or the listed groups
\* removed); and every step changes the grants of the image it is at alone,
\* so that image and the ones after it are untouched.
C9_PartialBatch ==
    /\ \A r \in Grants : \A o \in ShareImages_post(r) :
          /\ (o.req.pc = "done" /\ Foreign(o.req)) =>
                /\ o.req.status = 403
                /\ o.req.args.rows[o.req.args.cur] # r.user
                /\ GroupsOn(o.store.perms, o.req.args.cur) = GroupsOn(perms, o.req.args.cur)
                /\ \A i \in Processed(o.req) :
                      NamedByGrant(r.args.data) \subseteq GroupsOn(o.store.perms, i)
          /\ \A i \in ImageIds \ {r.args.cur} :
                GroupsOn(o.store.perms, i) = GroupsOn(perms, i)
    /\ \A r \in Revokes : \A o \in ShareImages_delete(r) :
          /\ (o.req.pc = "done" /\ Foreign(o.req)) =>
                /\ o.req.status = 403
                /\ o.req.args.rows[o.req.args.cur] # r.user
                /\ GroupsOn(o.store.perms, o.req.args.cur) = GroupsOn(perms, o.req.args.cur)
                /\ \A i \in Processed(o.req) :
                      GroupQuery(r.args.data) \cap GroupsOn(o.store.perms, i) = {}
          /\ \A i \in ImageIds \ {r.args.cur} :
                GroupsOn(o.store.perms, i) = GroupsOn(perms, i)

\* C10: the statement of CreateGroup that adds the creator makes the creator
\* a member of the new group; a step of a JoinGroup request changes the
\* members of a group only when the acting user is a member of it at that
\* time; no step of a remove-member request by a member that names a user is
\* refused, and its last one leaves that user, the member itself included,
\* out of the group; and a group without members gets none from any step of
\* a JoinGroup request.
C10_MembershipByMembers ==
    /\ \A r \in Between("CreateGroup.post") :
          r.pc = "add" =>
              \A o \in CreateGroup_post(r) :
                  /\ o.req.status = 201
                  /\ groups[r.args.id] = r.args.name
                  /\ r.user \in MembersIn(o.store, r.args.id)
    /\ \A r \in Adds : \A o \in JoinGroup_post(r) :
          o.store.user_groups # user_groups => IsMemberOfNamed(r.user, r.args.group_name)
    /\ \A r \in Removes : \A o \in JoinGroup_delete(r) :
          /\ o.store.user_groups # user_groups => IsMemberOfNamed(r.user, r.args.group_name)
          /\ (/\ IsMemberOfNamed(r.user, r.args.group_name)
              /\ "email" \in DOMAIN r.args.data
              /\ r.args.data["email"] \in Users) => o.req.status \in {0, 200}
          /\ r.pc = "remove" =>
                /\ o.req.status = 200
                /\ r.args.data["email"] \notin MembersIn(o.store, r.args.id)
    /\ \A g \in DOMAIN groups :
          Members(g) = {} =>
              /\ \A r \in Adds : \A o \in JoinGroup_post(r) : MembersIn(o.store, g) = {}
              /\ \A r \in Removes : \A o \in JoinGroup_delete(r) : MembersIn(o.store, g) = {}

====
